---- MODULE Spec2Model ----
(***************************************************************************)
(* Model of tuifeed's article detail components                            *)
(* (src/ui/components/article.rs) and of its configuration bootstrap       *)
(* (src/helpers/path.rs).                                                  *)
(*                                                                         *)
(* Text is a sequence of one-character strings.  ArticleSummary wraps a    *)
(* tui_realm_stdlib Textarea whose state is (list_index, list_len); the    *)
(* component is built by ArticleSummary::new and driven by                 *)
(* Component::on, one event at a time.                                     *)
(***************************************************************************)
EXTENDS Integers, Sequences, FiniteSets, TLC

(* ---------------------------- bounds ----------------------------------- *)

\* longest generated body, in characters
MaxLen == 5
\* most paragraphs of the long generated bodies
MaxRows == 10
\* saturation of the counter of consecutive upward events
MaxRun == 4
\* longest recorded key sequence of the scenario specification
MaxKeys == 3

(* ---------------------------- text ------------------------------------- *)

NL == "\n"

\* characters of the generated bodies
Alphabet == {"a", " ", NL}

\* char::is_whitespace, restricted to the characters that occur
White == {" ", NL, "\t", "\r"}

Min(a, b) == IF a < b THEN a ELSE b

Max(a, b) == IF a > b THEN a ELSE b

RECURSIVE TrimStart(_, _)
TrimStart(s, P) ==
    IF s # <<>> /\ Head(s) \in P THEN TrimStart(Tail(s), P) ELSE s

RECURSIVE TrimEnd(_, _)
TrimEnd(s, P) ==
    IF s # <<>> /\ s[Len(s)] \in P THEN TrimEnd(SubSeq(s, 1, Len(s) - 1), P) ELSE s

\* str::trim_matches(c)
trim_matches(s, c) == TrimEnd(TrimStart(s, {c}), {c})

\* str::trim
trim(s) == TrimEnd(TrimStart(s, White), White)

\* number of newline characters s starts with
RECURSIVE NewlineRun(_)
NewlineRun(s) ==
    IF s # <<>> /\ Head(s) = NL THEN 1 + NewlineRun(Tail(s)) ELSE 0

\* helpers::strings::replace_multiple_newlines: every maximal run of two or
\* more newlines becomes `with`
RECURSIVE replace_multiple_newlines(_, _)
replace_multiple_newlines(s, with) ==
    IF s = <<>> THEN <<>>
    ELSE LET k == NewlineRun(s) IN
         IF k >= 2
         THEN with \o replace_multiple_newlines(SubSeq(s, k + 1, Len(s)), with)
         ELSE <<Head(s)>> \o replace_multiple_newlines(Tail(s), with)

\* str::split(c): always at least one piece, the empty text gives <<"">>
RECURSIVE split(_, _)
split(s, c) ==
    IF \A i \in 1..Len(s) : s[i] # c THEN <<s>>
    ELSE LET i == CHOOSE j \in 1..Len(s) :
                      s[j] = c /\ \A h \in 1..(j - 1) : s[h] # c
         IN <<SubSeq(s, 1, i - 1)>> \o split(SubSeq(s, i + 1, Len(s)), c)

\* TextSpan::from(&str): the text with the default styling
TextSpanFrom(s) == [content |-> s, fg |-> "Reset", bg |-> "Reset"]

make_summary_rows_nocollapse(summary) ==
    LET t == trim(trim_matches(summary, NL))
        pieces == split(t, NL)
    IN [i \in 1..Len(pieces) |-> TextSpanFrom(pieces[i])]

make_summary_rows_notrim(summary) ==
    LET t == replace_multiple_newlines(trim_matches(summary, NL), <<NL>>)
        pieces == split(t, NL)
    IN [i \in 1..Len(pieces) |-> TextSpanFrom(pieces[i])]

make_summary_rows_skipempty(summary) ==
    LET t == replace_multiple_newlines(trim(trim_matches(summary, NL)), <<NL>>)
        pieces == IF t = <<>> THEN <<>> ELSE split(t, NL)
    IN [i \in 1..Len(pieces) |-> TextSpanFrom(pieces[i])]

\* ArticleSummary::make_summary_rows
make_summary_rows(summary) ==
    LET t == replace_multiple_newlines(trim(trim_matches(summary, NL)), <<NL>>)
        pieces == split(t, NL)
    IN [i \in 1..Len(pieces) |-> TextSpanFrom(pieces[i])]

(* ---------------------------- bodies ----------------------------------- *)

Texts(n) == UNION {[1..k -> Alphabet] : k \in 0..n}

\* k one-letter paragraphs separated by single newlines
RECURSIVE Lines(_)
Lines(k) == IF k <= 1 THEN <<"a">> ELSE Lines(k - 1) \o <<NL, "a">>

HelloWorld ==
    <<"H", "e", "l", "l", "o", NL, NL, NL, NL, "W", "o", "r", "l", "d">>

ParaOneTwo ==
    <<" ", " ", NL, "P", "a", "r", "a", " ", "o", "n", "e", NL,
      "P", "a", "r", "a", " ", "t", "w", "o", NL, " ", " ">>

LongBodies == {Lines(k) : k \in 1..MaxRows} \cup {HelloWorld, ParaOneTwo}

Bodies == Texts(MaxLen) \cup LongBodies

(* ---------------------------- events ----------------------------------- *)

NavKeys == {"Down", "Up", "PageDown", "PageUp", "Home", "End"}

HandledKeys == NavKeys \cup {"Left", "Enter"}

\* keys without a match arm, and events that are not keyboard events
OtherEvents == {"Right", "Char", "WindowResize", "Tick"}

Events == HandledKeys \cup OtherEvents

\* Option<Msg>
Msgs == {"Some(Msg::None)", "Some(Msg::ArticleBlur)", "Some(Msg::OpenArticle)", "None"}

(* ---------------------------- Textarea --------------------------------- *)
(* The widget is tui_realm_stdlib's Textarea.  Cmd::Scroll moves the list  *)
(* index by the configured step, one row at a time, never below 0 and      *)
(* never past the last row; Cmd::GoTo jumps to the first or the last row.  *)

incr_list_index_unclamped(idx, len) == idx + 1

\* TextareaStates::incr_list_index
incr_list_index(idx, len) == IF idx + 1 < len THEN idx + 1 ELSE idx

decr_list_index_unguarded(idx) == idx - 1

\* TextareaStates::decr_list_index
decr_list_index(idx) == IF idx > 0 THEN idx - 1 ELSE idx

\* Textarea::step(4) in ArticleSummary::new: rows moved by one Cmd::Scroll
ScrollStep == 4

Times_single(n, idx, len, dir) ==
    IF dir = "Down" THEN incr_list_index(idx, len) ELSE decr_list_index(idx)

\* (0..n).for_each(|_| incr_list_index() / decr_list_index())
RECURSIVE Times(_, _, _, _)
Times(n, idx, len, dir) ==
    IF n = 0 THEN idx
    ELSE Times(n - 1,
               IF dir = "Down" THEN incr_list_index(idx, len) ELSE decr_list_index(idx),
               len, dir)

perform_end_is_len(idx, len, cmd) ==
    CASE cmd = "Scroll(Down)" -> Times(ScrollStep, idx, len, "Down")
      [] cmd = "Scroll(Up)" -> Times(ScrollStep, idx, len, "Up")
      [] cmd = "GoTo(Begin)" -> 0
      [] cmd = "GoTo(End)" -> len
      [] OTHER -> idx

\* Textarea::perform: the new list_index
perform(idx, len, cmd) ==
    CASE cmd = "Scroll(Down)" -> Times(ScrollStep, idx, len, "Down")
      [] cmd = "Scroll(Up)" -> Times(ScrollStep, idx, len, "Up")
      [] cmd = "GoTo(Begin)" -> 0
      [] cmd = "GoTo(End)" -> IF len > 0 THEN len - 1 ELSE 0
      [] OTHER -> idx

(* ---------------------------- ArticleSummary --------------------------- *)

on_cmds_left_scrolls(e) ==
    CASE e = "Down" -> <<"Scroll(Down)">>
      [] e = "Up" -> <<"Scroll(Up)">>
      [] e = "PageDown" -> <<"Scroll(Down)", "Scroll(Down)">>
      [] e = "PageUp" -> <<"Scroll(Up)", "Scroll(Up)">>
      [] e = "Home" -> <<"GoTo(Begin)">>
      [] e = "End" -> <<"GoTo(End)">>
      [] e = "Left" -> <<"Scroll(Up)">>
      [] OTHER -> <<>>

on_cmds_page_once(e) ==
    CASE e = "Down" -> <<"Scroll(Down)">>
      [] e = "Up" -> <<"Scroll(Up)">>
      [] e = "PageDown" -> <<"Scroll(Down)">>
      [] e = "PageUp" -> <<"Scroll(Up)">>
      [] e = "Home" -> <<"GoTo(Begin)">>
      [] e = "End" -> <<"GoTo(End)">>
      [] OTHER -> <<>>

on_cmds_right_scrolls(e) ==
    CASE e = "Down" -> <<"Scroll(Down)">>
      [] e = "Up" -> <<"Scroll(Up)">>
      [] e = "PageDown" -> <<"Scroll(Down)", "Scroll(Down)">>
      [] e = "PageUp" -> <<"Scroll(Up)", "Scroll(Up)">>
      [] e = "Home" -> <<"GoTo(Begin)">>
      [] e = "End" -> <<"GoTo(End)">>
      [] e = "Right" -> <<"Scroll(Down)">>
      [] OTHER -> <<>>

\* the commands the match arm of Component::on performs, in order
on_cmds(e) ==
    CASE e = "Down" -> <<"Scroll(Down)">>
      [] e = "Up" -> <<"Scroll(Up)">>
      [] e = "PageDown" -> <<"Scroll(Down)", "Scroll(Down)">>
      [] e = "PageUp" -> <<"Scroll(Up)", "Scroll(Up)">>
      [] e = "Home" -> <<"GoTo(Begin)">>
      [] e = "End" -> <<"GoTo(End)">>
      [] OTHER -> <<>>

\* the value the match arm of Component::on returns
on_msg(e) ==
    CASE e \in NavKeys -> "Some(Msg::None)"
      [] e = "Left" -> "Some(Msg::ArticleBlur)"
      [] e = "Enter" -> "Some(Msg::OpenArticle)"
      [] OTHER -> "None"

RECURSIVE perform_all(_, _, _)
perform_all(idx, len, cmds) ==
    IF cmds = <<>> THEN idx
    ELSE perform_all(perform(idx, len, Head(cmds)), len, Tail(cmds))

(* ---------------------------- state ------------------------------------ *)

VARIABLES
    mounted,      \* an ArticleSummary exists
    summary,      \* the body it was built from
    text_rows,    \* Textarea's rows
    list_len,     \* TextareaStates::list_len
    list_index,   \* TextareaStates::list_index, the scroll position
    ev,           \* the event last delivered to on ("-" before the first)
    msg,          \* what on returned for it
    upFrom,       \* position before the current run of Up / PageUp events
    upRun,        \* length of that run, saturating at MaxRun
    afterHome,    \* Home was delivered and only Up events since
    keys          \* events since construction (scenario specification)

uivars == <<mounted, summary, text_rows, list_len, list_index, ev, msg,
            upFrom, upRun, afterHome, keys>>

VARIABLES
    platform,     \* dirs::config_dir() of the host: <<>> or <<root path>>
    conf_init,    \* the lazy static CONF_DIR has been evaluated
    CONF_DIR,     \* its value: <<>> or <<root path>>
    root,         \* kind of the entry at the configuration root
    tui,          \* kind of the entry <root>/tuifeed
    tuiData,      \* its contents when it is a plain file
    cfg,          \* kind of the entry <root>/tuifeed/config.toml
    cfgData,      \* its contents when it is a file
    fn,           \* the step last taken: a function's name, "env", or "-"
    arg,          \* its argument: <<>> or <<directory path>>
    ret,          \* what it returned
    looked,       \* that call evaluated the platform lookup
    probes,       \* existence checks that call made
    creates,      \* create_dir attempts that call made
    writes,       \* write_file attempts that call made
    dirRet,       \* what the latest init_config_dir call returned
    prevRet,      \* what the init_config_dir call before that one returned
    lookups,      \* platform lookups of the process so far
    templated,    \* template writes since config.toml last went missing from outside
    failed        \* a get_config_file call has returned Err

cfgvars == <<platform, conf_init, CONF_DIR, root, tui, tuiData, cfg, cfgData,
             fn, arg, ret, looked, probes, creates, writes, dirRet, prevRet, lookups,
             templated, failed>>

VARIABLES
    article,      \* the Article the static components were built from
    title_text,   \* ArticleTitle's paragraph text
    date_text,    \* ArticleDate's label text
    authors_text, \* ArticleAuthors' label text
    link_text,    \* ArticleLink's label text
    st_comp,      \* the static component last sent an event ("-" before)
    st_ev,        \* that event
    st_msg        \* what its on returned

stvars == <<article, title_text, date_text, authors_text, link_text,
            st_comp, st_ev, st_msg>>

vars == <<uivars, cfgvars, stvars>>

\* no call returned yet
NoRet == [tag |-> "-", val |-> <<>>, err |-> ""]

\* the process has started and has not touched the configuration
CfgStart ==
    /\ conf_init = FALSE
    /\ CONF_DIR = <<>>
    /\ tui = "absent"
    /\ tuiData = ""
    /\ cfg = "absent"
    /\ cfgData = ""
    /\ fn = "-"
    /\ arg = <<>>
    /\ ret = NoRet
    /\ looked = FALSE
    /\ probes = 0
    /\ creates = 0
    /\ writes = 0
    /\ dirRet = NoRet
    /\ prevRet = NoRet
    /\ lookups = 0
    /\ templated = 0
    /\ failed = FALSE

\* the article view's process: configuration untouched, no platform root
CfgIdle ==
    /\ platform = <<>>
    /\ root = "absent"
    /\ CfgStart

\* no static component has been built
StIdle ==
    /\ article = [title |-> <<>>, date |-> <<>>, authors |-> <<>>, url |-> <<>>]
    /\ title_text = <<>>
    /\ date_text = <<>>
    /\ authors_text = <<>>
    /\ link_text = <<>>
    /\ st_comp = "-"
    /\ st_ev = "-"
    /\ st_msg = "None"

Init ==
    /\ mounted = FALSE
    /\ summary = <<>>
    /\ text_rows = <<>>
    /\ list_len = 0
    /\ list_index = 0
    /\ ev = "-"
    /\ msg = "None"
    /\ upFrom = 0
    /\ upRun = 0
    /\ afterHome = FALSE
    /\ keys = <<>>
    /\ CfgIdle
    /\ StIdle

\* ArticleSummary::new(summary)
new(s) ==
    /\ ~mounted
    /\ mounted' = TRUE
    /\ summary' = s
    /\ text_rows' = make_summary_rows(s)
    /\ list_len' = Len(make_summary_rows(s))
    /\ list_index' = 0
    /\ ev' = "-"
    /\ msg' = "None"
    /\ upFrom' = 0
    /\ upRun' = 0
    /\ afterHome' = FALSE
    /\ keys' = <<>>
    /\ UNCHANGED <<cfgvars, stvars>>

\* the component is dropped when the article view is left
drop ==
    /\ mounted
    /\ mounted' = FALSE
    /\ summary' = <<>>
    /\ text_rows' = <<>>
    /\ list_len' = 0
    /\ list_index' = 0
    /\ ev' = "-"
    /\ msg' = "None"
    /\ upFrom' = 0
    /\ upRun' = 0
    /\ afterHome' = FALSE
    /\ keys' = <<>>
    /\ UNCHANGED <<cfgvars, stvars>>

\* <ArticleSummary as Component>::on(e), without the record of keys
handle(e) ==
    /\ mounted
    /\ list_index' = perform_all(list_index, list_len, on_cmds(e))
    /\ msg' = on_msg(e)
    /\ ev' = e
    /\ upFrom' = IF e \in {"Up", "PageUp"} /\ upRun > 0 THEN upFrom ELSE list_index
    /\ upRun' = IF e \in {"Up", "PageUp"} THEN Min(upRun + 1, MaxRun) ELSE 0
    /\ afterHome' = (e = "Home" \/ (afterHome /\ e = "Up"))
    /\ UNCHANGED <<mounted, summary, text_rows, list_len>>
    /\ UNCHANGED <<cfgvars, stvars>>

on(e) ==
    /\ handle(e)
    /\ UNCHANGED keys

Next ==
    \/ \E s \in Bodies : new(s)
    \/ drop
    \/ \E e \in Events : on(e)

Spec == Init /\ [][Next]_vars

(* ------------- scenario specification: keys are recorded --------------- *)

ScenarioInit ==
    \E s \in LongBodies :
        /\ mounted = TRUE
        /\ summary = s
        /\ text_rows = make_summary_rows(s)
        /\ list_len = Len(make_summary_rows(s))
        /\ list_index = 0
        /\ ev = "-"
        /\ msg = "None"
        /\ upFrom = 0
        /\ upRun = 0
        /\ afterHome = FALSE
        /\ keys = <<>>
        /\ CfgIdle
        /\ StIdle

on_recorded(e) ==
    /\ Len(keys) < MaxKeys
    /\ handle(e)
    /\ keys' = Append(keys, e)

ScenarioNext == \E e \in Events : on_recorded(e)

ScenarioSpec == ScenarioInit /\ [][ScenarioNext]_vars

(* ---------------------------- paths and files -------------------------- *)
(* src/helpers/path.rs.  A path is its components and whether it was       *)
(* written with a trailing separator; the file system is the three entries *)
(* root, tui and cfg.                                                      *)

\* the platform's per-user configuration root
RootPath == [parts |-> <<"cfg">>, slash |-> FALSE]

\* PathBuf::push of one relative component
push(p, name, slash) == [parts |-> Append(p.parts, name), slash |-> slash]

\* <root>/tuifeed/ as init_config_dir builds it: p.push("tuifeed/")
TuiPath == push(RootPath, "tuifeed", TRUE)

\* directories get_config_file is called with
Dirs == {TuiPath,
         [parts |-> <<"cfg", "tuifeed">>, slash |-> FALSE],
         [parts |-> <<"cfg", "missing">>, slash |-> TRUE]}

\* Display of a path
RECURSIVE display_parts(_)
display_parts(ps) ==
    IF ps = <<>> THEN <<>> ELSE <<"/", Head(ps)>> \o display_parts(Tail(ps))

display(p) == display_parts(p.parts) \o (IF p.slash THEN <<"/">> ELSE <<>>)

init_config_file_text_empty == ""

\* the template init_config_file writes
init_config_file_text ==
    "[sources]\n# Write here the sources you want to get the feed from following the example below\n# New_York_Times = \"https://rss.nytimes.com/services/xml/rss/nyt/World.xml\"\n"

\* what the test writes into the blocking file
HelloFile == "Hello world!\n"

\* contents a user may give config.toml
UserEdits == {"[sources]\nmine = \"https://example.org/rss\"\n", ""}

\* kind of the entry the components name
KindOf(parts) ==
    CASE parts = <<"cfg">> -> root
      [] parts = <<"cfg", "tuifeed">> -> tui
      [] parts = <<"cfg", "tuifeed", "config.toml">> -> cfg
      [] OTHER -> "absent"

Parent(parts) == SubSeq(parts, 1, Len(parts) - 1)

exists_any_entry(p) == KindOf(p.parts) # "absent"

\* Path::exists: metadata of the path can be read; a path written with a
\* trailing separator resolves only to a directory
exists(p) ==
    /\ KindOf(p.parts) # "absent"
    /\ p.slash => KindOf(p.parts) = "dir"

EEXIST == "File exists (os error 17)"

ENOENT == "No such file or directory (os error 2)"

ENOTDIR == "Not a directory (os error 20)"

create_dir_err_replaces(p) ==
    CASE KindOf(Parent(p.parts)) = "absent" -> ENOENT
      [] KindOf(Parent(p.parts)) = "file" -> ENOTDIR
      [] OTHER -> ""

\* std::fs::create_dir: "" on success, else the error's description
create_dir_err(p) ==
    CASE KindOf(p.parts) # "absent" -> EEXIST
      [] KindOf(Parent(p.parts)) = "absent" -> ENOENT
      [] KindOf(Parent(p.parts)) = "file" -> ENOTDIR
      [] OTHER -> ""

\* helpers::file::write_file: "" on success, else the error's description
write_file_err(p) ==
    CASE KindOf(Parent(p.parts)) = "absent" -> ENOENT
      [] KindOf(Parent(p.parts)) = "file" -> ENOTDIR
      [] OTHER -> ""

\* Result and Option values
Ok(v) == [tag |-> "Ok", val |-> v, err |-> ""]

Err(e) == [tag |-> "Err", val |-> <<>>, err |-> e]

needs_lookup_always(inited) == TRUE

\* lazy_static: CONF_DIR is evaluated on first use only
needs_lookup(inited) == ~inited

init_config_dir_ret_none_is_err(cd, p, found, e) ==
    IF cd = <<>> THEN Err(ENOENT)
    ELSE IF found THEN Ok(<<p>>)
    ELSE IF e = "" THEN Ok(<<p>>) ELSE Err(e)

\* the value init_config_dir returns
init_config_dir_ret(cd, p, found, e) ==
    IF cd = <<>> THEN Ok(<<>>)
    ELSE IF found THEN Ok(<<p>>)
    ELSE IF e = "" THEN Ok(<<p>>) ELSE Err(e)

created_kind_noop(kind, e) == kind

\* the entry at the path after create_dir was tried on it
created_kind(kind, e) == IF e = "" THEN "dir" ELSE kind

must_init_always(found) == TRUE

\* get_config_file: if !cfg_file.exists()
must_init(found) == ~found

get_config_file_ret_ignores_err(cfg_file, e) == Ok(<<cfg_file>>)

\* the value get_config_file returns: init_config_file(..)? then Ok(cfg_file)
get_config_file_ret(cfg_file, e) == IF e = "" THEN Ok(<<cfg_file>>) ELSE Err(e)

\* init_config_dir()
init_config_dir ==
    LET cd == IF needs_lookup(conf_init) THEN platform ELSE CONF_DIR
        p == push(IF cd = <<>> THEN RootPath ELSE cd[1], "tuifeed", TRUE)
        found == exists(p)
        tried == cd # <<>> /\ ~found
        e == IF tried THEN create_dir_err(p) ELSE ""
    IN /\ conf_init' = TRUE
       /\ CONF_DIR' = cd
       /\ looked' = needs_lookup(conf_init)
       /\ lookups' = lookups + (IF needs_lookup(conf_init) THEN 1 ELSE 0)
       /\ probes' = IF cd # <<>> THEN 1 ELSE 0
       /\ creates' = IF tried THEN 1 ELSE 0
       /\ writes' = 0
       /\ tui' = IF tried THEN created_kind(tui, e) ELSE tui
       /\ tuiData' = IF tried /\ created_kind(tui, e) = "dir" THEN "" ELSE tuiData
       /\ ret' = init_config_dir_ret(cd, p, found, e)
       /\ dirRet' = init_config_dir_ret(cd, p, found, e)
       /\ prevRet' = dirRet
       /\ fn' = "init_config_dir"
       /\ arg' = <<>>
       /\ UNCHANGED <<platform, root, cfg, cfgData, templated, failed>>
       /\ UNCHANGED <<uivars, stvars>>

\* get_config_file(config_dir), with init_config_file
get_config_file(config_dir) ==
    LET cfg_file == push(config_dir, "config.toml", FALSE)
        found == exists(cfg_file)
        tried == must_init(found)
        e == IF tried THEN write_file_err(cfg_file) ELSE ""
        wrote == tried /\ e = ""
    IN /\ probes' = 1
       /\ writes' = IF tried THEN 1 ELSE 0
       /\ creates' = 0
       /\ looked' = FALSE
       /\ cfg' = IF wrote THEN "file" ELSE cfg
       /\ cfgData' = IF wrote THEN init_config_file_text ELSE cfgData
       /\ templated' = IF wrote THEN templated + 1 ELSE templated
       /\ ret' = get_config_file_ret(cfg_file, e)
       /\ failed' = (failed \/ get_config_file_ret(cfg_file, e).tag = "Err")
       /\ fn' = "get_config_file"
       /\ arg' = <<config_dir>>
       /\ UNCHANGED <<platform, conf_init, CONF_DIR, root, tui, tuiData,
                      dirRet, prevRet, lookups>>
       /\ UNCHANGED <<uivars, stvars>>

\* what a step from outside the two functions leaves alone
EnvFrame ==
    /\ fn' = "env"
    /\ UNCHANGED <<platform, conf_init, CONF_DIR, root, arg, ret, looked,
                   probes, creates, writes, dirRet, prevRet, lookups, failed>>
    /\ UNCHANGED <<uivars, stvars>>

\* std::fs::remove_dir_all(conf_dir), as the tests do
env_remove_dir_all ==
    /\ tui = "dir"
    /\ tui' = "absent"
    /\ cfg' = "absent"
    /\ cfgData' = ""
    /\ templated' = 0
    /\ UNCHANGED tuiData
    /\ EnvFrame

\* a plain file is created at <root>/tuifeed, as the test does
env_create_file ==
    /\ root = "dir"
    /\ tui = "absent"
    /\ tui' = "file"
    /\ tuiData' = HelloFile
    /\ UNCHANGED <<cfg, cfgData, templated>>
    /\ EnvFrame

\* std::fs::remove_file(conf_dir), as the test does
env_remove_file ==
    /\ tui = "file"
    /\ tui' = "absent"
    /\ tuiData' = ""
    /\ UNCHANGED <<cfg, cfgData, templated>>
    /\ EnvFrame

\* the user edits config.toml
env_edit_config ==
    /\ cfg = "file"
    /\ \E t \in UserEdits \ {cfgData} : cfgData' = t
    /\ UNCHANGED <<tui, tuiData, cfg, templated>>
    /\ EnvFrame

ConfigInit ==
    /\ mounted = FALSE
    /\ summary = <<>>
    /\ text_rows = <<>>
    /\ list_len = 0
    /\ list_index = 0
    /\ ev = "-"
    /\ msg = "None"
    /\ upFrom = 0
    /\ upRun = 0
    /\ afterHome = FALSE
    /\ keys = <<>>
    /\ StIdle
    /\ platform \in {<<>>, <<RootPath>>}
    /\ root \in {"absent", "dir"}
    /\ CfgStart

ConfigNext ==
    \/ init_config_dir
    \/ \E d \in Dirs : get_config_file(d)
    \/ env_remove_dir_all
    \/ env_create_file
    \/ env_remove_file
    \/ env_edit_config

ConfigSpec == ConfigInit /\ [][ConfigNext]_vars

(* ---------------------------- static fields ---------------------------- *)
(* ArticleTitle, ArticleDate, ArticleAuthors, ArticleLink.                 *)

\* most authors of a generated article
MaxAuthors == 2

StaticComponents == {"ArticleTitle", "ArticleDate", "ArticleAuthors", "ArticleLink"}

Ann == <<"A", "n", "n">>

Bo == <<"B", "o">>

AuthorLists == UNION {[1..k -> {Ann, Bo}] : k \in 0..MaxAuthors}

\* a publication time, as the fields the format pattern prints
Friday == [weekday |-> "Friday", day |-> "05", month |-> "November",
           year |-> "2021", hour |-> "09", minute |-> "30"]

Articles ==
    [title : {<<>>, <<"T">>}, date : {<<>>, <<Friday>>},
     authors : AuthorLists, url : {<<"u">>}]

\* helpers::fmt::format_datetime(x, "%A %d %B %Y, %H:%M")
format_datetime(x) ==
    <<x.weekday, " ", x.day, " ", x.month, " ", x.year, ",", " ",
      x.hour, ":", x.minute>>

\* ArticleDate::new: datetime.map(format_datetime).unwrap_or_default()
date_text_of(datetime) ==
    IF datetime = <<>> THEN <<>> ELSE format_datetime(datetime[1])

\* [String]::join(sep)
RECURSIVE join(_, _)
join(ss, sep) ==
    IF ss = <<>> THEN <<>>
    ELSE IF Len(ss) = 1 THEN ss[1]
    ELSE ss[1] \o sep \o join(Tail(ss), sep)

\* ArticleAuthors::new: authors.join(", ")
authors_text_of(authors) == join(authors, <<",", " ">>)

static_on_msg_link_opens(c, e) ==
    IF c = "ArticleLink" /\ e = "Enter" THEN "Some(Msg::OpenArticle)" ELSE "None"

\* Component::on of the four static components
static_on_msg(c, e) == "None"

\* the four components are built from one article
StaticInit ==
    /\ mounted = FALSE
    /\ summary = <<>>
    /\ text_rows = <<>>
    /\ list_len = 0
    /\ list_index = 0
    /\ ev = "-"
    /\ msg = "None"
    /\ upFrom = 0
    /\ upRun = 0
    /\ afterHome = FALSE
    /\ keys = <<>>
    /\ CfgIdle
    /\ \E a \in Articles :
        /\ article = a
        /\ title_text = a.title
        /\ date_text = date_text_of(a.date)
        /\ authors_text = authors_text_of(a.authors)
        /\ link_text = a.url
    /\ st_comp = "-"
    /\ st_ev = "-"
    /\ st_msg = "None"

\* <component as Component>::on(e) for a static component
static_on(c, e) ==
    /\ st_comp' = c
    /\ st_ev' = e
    /\ st_msg' = static_on_msg(c, e)
    /\ UNCHANGED <<article, title_text, date_text, authors_text, link_text>>
    /\ UNCHANGED <<uivars, cfgvars>>

StaticNext == \E c \in StaticComponents, e \in Events : static_on(c, e)

StaticSpec == StaticInit /\ [][StaticNext]_vars

(* ---------------------------- claims ----------------------------------- *)

\* the step delivers event e to the mounted component
Delivered(e) == mounted /\ mounted' /\ ev' = e

\* C1 as stated: a Down-arrow event moves the scroll position from p to
\* p + 1 and an Up-arrow event to max(0, p - 1); both return Some(Msg::None).
C1_ArrowMovesOneRow ==
    [][/\ Delivered("Down") =>
            list_index' = list_index + 1 /\ msg' = "Some(Msg::None)"
       /\ Delivered("Up") =>
            list_index' = Max(0, list_index - 1) /\ msg' = "Some(Msg::None)"]_vars

\* C1 amended: a Down-arrow event moves the scroll position from p to
\* min(p + 4, row_count - 1) and an Up-arrow event to max(0, p - 4); both
\* return Some(Msg::None).
C1_ArrowMovesOneStep ==
    [][/\ Delivered("Down") =>
            /\ list_index' = Min(list_index + 4, list_len - 1)
            /\ msg' = "Some(Msg::None)"
       /\ Delivered("Up") =>
            /\ list_index' = Max(0, list_index - 4)
            /\ msg' = "Some(Msg::None)"]_vars

\* a Down-arrow event has moved a whole step without reaching the last row
C1_Witness ==
    mounted /\ ev = "Down" /\ list_index = 4 /\ list_len > 5

\* C2 as stated: a Page Down event increases the scroll position by exactly
\* 2 and a Page Up event decreases it by 2, floored at 0; both return
\* Some(Msg::None).
C2_PageMovesTwoRows ==
    [][/\ Delivered("PageDown") =>
            list_index' = list_index + 2 /\ msg' = "Some(Msg::None)"
       /\ Delivered("PageUp") =>
            list_index' = Max(0, list_index - 2) /\ msg' = "Some(Msg::None)"]_vars

\* C2 amended: a Page Down event moves the scroll position as two Down-arrow
\* events do, from p to min(p + 8, row_count - 1), and a Page Up event as two
\* Up-arrow events do, to max(0, p - 8); both return Some(Msg::None).
C2_PageMovesTwoSteps ==
    [][/\ Delivered("PageDown") =>
            /\ list_index' = Min(list_index + 8, list_len - 1)
            /\ list_index' = Min(Min(list_index + 4, list_len - 1) + 4, list_len - 1)
            /\ msg' = "Some(Msg::None)"
       /\ Delivered("PageUp") =>
            /\ list_index' = Max(0, list_index - 8)
            /\ list_index' = Max(0, Max(0, list_index - 4) - 4)
            /\ msg' = "Some(Msg::None)"]_vars

\* a Page Down event has moved two whole steps without reaching the last row
C2_Witness ==
    mounted /\ ev = "PageDown" /\ list_index = 8 /\ list_len > 9

\* C3 as stated: over a body of 5 rows, Down, Down, Up from the initial
\* position 0 leaves the scroll position at 1.
C3_DownDownUpLeavesOne ==
    (mounted /\ list_len = 5 /\ keys = <<"Down", "Down", "Up">>) => list_index = 1

\* C3 amended: over a body of 5 rows, Down, Down, Up from the initial
\* position 0 leaves the scroll position at 0.
C3_DownDownUpLeavesZero ==
    (mounted /\ list_len = 5 /\ keys = <<"Down", "Down", "Up">>) => list_index = 0

\* Down, Down, Up have been delivered to a component over 5 rows
C3_Witness ==
    mounted /\ list_len = 5 /\ keys = <<"Down", "Down", "Up">>

\* C4: the scroll position is never negative; after k Up-arrow or Page Up
\* events from position p with k >= p it is 0; after Home followed by any
\* number of Up-arrow events it is 0.
C4_FloorsAtZero ==
    /\ list_index >= 0
    /\ (mounted /\ upRun > 0 /\ upRun >= upFrom) => list_index = 0
    /\ (mounted /\ afterHome) => list_index = 0

\* two upward events were delivered from position 2
C4_Witness ==
    mounted /\ upRun >= 2 /\ upFrom = 2 /\ ev = "Up" /\ list_index = 0

\* C5: an End event sets the scroll position to row_count - 1 whatever it
\* was before, and returns Some(Msg::None).
C5_EndGoesToLastRow ==
    [][Delivered("End") =>
            list_index' = list_len - 1 /\ msg' = "Some(Msg::None)"]_vars

\* an End event has moved the position to the last of several rows
C5_Witness ==
    mounted /\ ev = "End" /\ list_len >= 3 /\ list_index = list_len - 1

\* C6: a Left-arrow event returns Some(Msg::ArticleBlur), an Enter event
\* returns Some(Msg::OpenArticle), and neither changes the scroll position.
C6_LeftBlursEnterOpens ==
    [][/\ Delivered("Left") =>
            msg' = "Some(Msg::ArticleBlur)" /\ list_index' = list_index
       /\ Delivered("Enter") =>
            msg' = "Some(Msg::OpenArticle)" /\ list_index' = list_index]_vars

\* a Left-arrow event was delivered away from the top
C6_Witness ==
    mounted /\ ev = "Left" /\ list_index > 0 /\ msg = "Some(Msg::ArticleBlur)"

\* C7: every event other than the eight handled keys leaves the scroll
\* position unchanged and returns Option None; no event returns anything
\* but an Option<Msg>.
C7_OtherEventsIgnored ==
    [][\A e \in Events :
          Delivered(e) =>
            /\ msg' \in Msgs
            /\ e \notin HandledKeys => (msg' = "None" /\ list_index' = list_index)]_vars

\* an unhandled event was delivered away from the top
C7_Witness ==
    mounted /\ ev \in OtherEvents /\ list_index > 0 /\ msg = "None"

WhiteOnly(s) == \A i \in 1..Len(s) : s[i] \in White

\* the rows' contents
Contents == [i \in 1..Len(text_rows) |-> text_rows[i].content]

\* C8 as stated: an empty body, or one of whitespace and newlines only,
\* gives zero rows.
C8_BlankBodyGivesNoRows ==
    (mounted /\ WhiteOnly(summary)) => Len(text_rows) = 0

\* C8 amended: an empty body, or one of whitespace and newlines only, gives
\* exactly one row, and that row is empty.
C8_BlankBodyGivesOneEmptyRow ==
    (mounted /\ WhiteOnly(summary)) => (list_len = 1 /\ Contents = << <<>> >>)

\* a component was built over a body of spaces and newlines
C8_Witness ==
    /\ mounted /\ WhiteOnly(summary) /\ Len(summary) >= 2
    /\ \E i, j \in 1..Len(summary) : summary[i] = " " /\ summary[j] = NL

\* positions of the body that are not whitespace
Inked(s) == {i \in 1..Len(s) : s[i] \notin White}

First(s) == CHOOSE i \in Inked(s) : \A j \in Inked(s) : i <= j

Last(s) == CHOOSE i \in Inked(s) : \A j \in Inked(s) : i >= j

\* the positions between the first and the last non-whitespace character
\* where a run of newlines starts
RunStarts(s) ==
    IF Inked(s) = {} THEN {}
    ELSE {i \in First(s)..Last(s) : s[i] = NL /\ s[i - 1] # NL}

\* a run of three or more newlines lies inside the body
LongRunInside(s) ==
    /\ Inked(s) # {}
    /\ \E i \in First(s)..Last(s) : i + 2 <= Len(s) /\ s[i] = NL /\ s[i + 1] = NL /\ s[i + 2] = NL

\* C9: no row contains a newline; every run of newlines inside the body,
\* however long, gives exactly one row break; no two consecutive rows are
\* empty, and no row is empty unless the body is blank.
C9_RunsCollapse ==
    mounted =>
        /\ \A i \in 1..Len(Contents) : \A j \in 1..Len(Contents[i]) : Contents[i][j] # NL
        /\ Len(text_rows) = 1 + Cardinality(RunStarts(summary))
        /\ \A i \in 1..(Len(Contents) - 1) : ~(Contents[i] = <<>> /\ Contents[i + 1] = <<>>)
        /\ Inked(summary) # {} => \A i \in 1..Len(Contents) : Contents[i] # <<>>
        /\ summary = HelloWorld =>
              Contents = << <<"H", "e", "l", "l", "o">>, <<"W", "o", "r", "l", "d">> >>

\* a component was built over a body with three newlines in a row inside
C9_Witness ==
    mounted /\ LongRunInside(summary) /\ Len(text_rows) >= 2

RECURSIVE Flatten(_)
Flatten(ss) == IF ss = <<>> THEN <<>> ELSE Head(ss) \o Flatten(Tail(ss))

\* the characters of s at positions lo..hi that are not newlines
RECURSIVE Unbroken(_, _, _)
Unbroken(s, lo, hi) ==
    IF lo > hi THEN <<>>
    ELSE (IF s[lo] = NL THEN <<>> ELSE <<s[lo]>>) \o Unbroken(s, lo + 1, hi)

\* C10: for a body with a non-whitespace character the first row does not
\* start with whitespace, the last row does not end with whitespace, and the
\* rows hold, in order, the characters between the first and the last
\* non-whitespace character; "  \nPara one\nPara two\n  " gives
\* ["Para one", "Para two"].
C10_EndsStripped ==
    (mounted /\ Inked(summary) # {}) =>
        /\ Contents[1] # <<>> /\ Contents[1][1] \notin White
        /\ LET l == Contents[Len(Contents)] IN l # <<>> /\ l[Len(l)] \notin White
        /\ Flatten(Contents) = Unbroken(summary, First(summary), Last(summary))
        /\ summary = ParaOneTwo =>
              Contents = << <<"P", "a", "r", "a", " ", "o", "n", "e">>,
                            <<"P", "a", "r", "a", " ", "t", "w", "o">> >>

\* a component was built over a body with spaces and newlines interleaved at
\* its start and whitespace at its end
C10_Witness ==
    /\ mounted /\ Inked(summary) # {} /\ Len(summary) >= 4
    /\ summary[1] = " " /\ summary[2] = NL
    /\ summary[Len(summary)] \in White

\* the step is a call of init_config_dir
CalledDir == fn' = "init_config_dir"

\* the step is a call of get_config_file
CalledFile == fn' = "get_config_file"

\* C11 as stated: a second init_config_dir call returns what the first
\* returned and makes no existence check, no directory creation and no
\* platform lookup.
C11_SecondCallTouchesNothing ==
    (fn = "init_config_dir" /\ prevRet.tag # "-") =>
        (ret = prevRet /\ probes = 0 /\ creates = 0 /\ ~looked)

\* C11 amended: a second init_config_dir call makes no new platform lookup
\* (the platform root is cached, looked up at most once per process) and
\* returns the path of the first call when both succeed; but it checks the
\* path's existence again whenever there is a root.
C11_SecondCallProbesAgain ==
    /\ lookups <= 1
    /\ (fn = "init_config_dir" /\ prevRet.tag # "-") =>
          /\ ~looked
          /\ (ret.tag = "Ok" /\ prevRet.tag = "Ok") => ret = prevRet
          /\ platform # <<>> => probes = 1

\* a second call returned the path the first returned, after one more probe
C11_Witness ==
    /\ fn = "init_config_dir" /\ prevRet.tag = "Ok" /\ prevRet.val # <<>>
    /\ ret = prevRet /\ probes = 1 /\ creates = 0

\* C12 as stated: with a root and a plain file at <root>/tuifeed,
\* init_config_dir returns Ok(Some(path)) without trying to create a
\* directory.
C12_FileCountsAsExisting ==
    [][(CalledDir /\ platform # <<>> /\ tui = "file") =>
          (ret' = Ok(<<TuiPath>>) /\ creates' = 0)]_vars

\* C12 amended: with a root and a plain file at <root>/tuifeed,
\* init_config_dir does not find the path <root>/tuifeed/ existing: after
\* its one existence check it tries to create the directory and returns Err.
C12_FileDoesNotCountAsExisting ==
    [][(CalledDir /\ platform # <<>> /\ tui = "file") =>
          (ret'.tag = "Err" /\ probes' = 1 /\ creates' = 1)]_vars

\* init_config_dir was called with a plain file in the way
C12_Witness ==
    fn = "init_config_dir" /\ platform # <<>> /\ tui = "file" /\ probes = 1

\* C13: with a plain file at <root>/tuifeed, init_config_dir returns Err
\* with the description of the failed creation, tries the creation exactly
\* once, and leaves the file and its contents as they were.
C13_BlockingFileGivesErr ==
    [][(CalledDir /\ platform # <<>> /\ tui = "file") =>
          /\ ret' = Err("File exists (os error 17)")
          /\ creates' = 1
          /\ tui' = "file"
          /\ tuiData' = tuiData]_vars

\* init_config_dir failed on the file the test writes
C13_Witness ==
    /\ fn = "init_config_dir" /\ ret.tag = "Err" /\ creates = 1
    /\ tui = "file" /\ tuiData = HelloFile

\* C14: from a root without a tuifeed entry, init_config_dir creates the
\* directory and returns Ok(Some(<root>/tuifeed/)); get_config_file called
\* next with that directory returns <dir>config.toml, and the file then
\* exists with the default template as its contents.
C14_FreshBootstrap ==
    [][/\ (CalledDir /\ platform # <<>> /\ root = "dir" /\ tui = "absent") =>
            (tui' = "dir" /\ creates' = 1 /\ ret' = Ok(<<TuiPath>>))
       /\ (CalledFile /\ fn = "init_config_dir" /\ creates = 1
             /\ ret.tag = "Ok" /\ arg' = ret.val) =>
            /\ ret'.tag = "Ok"
            /\ ret'.val[1].parts = <<"cfg", "tuifeed", "config.toml">>
            /\ display(ret'.val[1]) = display(arg'[1]) \o <<"config.toml">>
            /\ cfg' = "file"
            /\ cfgData' = "[sources]\n# Write here the sources you want to get the feed from following the example below\n# New_York_Times = \"https://rss.nytimes.com/services/xml/rss/nyt/World.xml\"\n"]_vars

\* get_config_file wrote the template into the directory init_config_dir
\* had returned
C14_Witness ==
    /\ fn = "get_config_file" /\ arg = <<TuiPath>> /\ dirRet = Ok(<<TuiPath>>)
    /\ writes = 1 /\ cfg = "file" /\ ret.tag = "Ok"

\* C15: when <dir>/config.toml exists, get_config_file returns its path,
\* writes nothing and leaves the contents as they were; the template is
\* written at most once while nobody removes the file.
C15_ExistingFileKept ==
    [][/\ templated' <= 1
       /\ (CalledFile /\ cfg = "file" /\ arg'[1].parts = <<"cfg", "tuifeed">>) =>
            /\ ret' = Ok(<<push(arg'[1], "config.toml", FALSE)>>)
            /\ writes' = 0
            /\ cfg' = "file"
            /\ cfgData' = cfgData]_vars

\* get_config_file returned over a file the user had edited
C15_Witness ==
    /\ fn = "get_config_file" /\ ret.tag = "Ok" /\ writes = 0
    /\ cfg = "file" /\ cfgData \in UserEdits /\ cfgData # "" /\ templated = 1

\* C16: without a platform root every init_config_dir call returns
\* Ok(None), checks and creates nothing, and leaves every entry as it was.
C16_NoRootGivesNone ==
    [][(CalledDir /\ platform = <<>>) =>
          /\ ret' = [tag |-> "Ok", val |-> <<>>, err |-> ""]
          /\ probes' = 0 /\ creates' = 0 /\ writes' = 0
          /\ UNCHANGED <<root, tui, tuiData, cfg, cfgData>>]_vars

\* two calls without a platform root both returned Ok(None)
C16_Witness ==
    /\ fn = "init_config_dir" /\ platform = <<>>
    /\ ret.tag = "Ok" /\ ret.val = <<>> /\ prevRet = ret

\* C17: a static component returns Option None for every event, its text is
\* what construction gave it ever after; the authors are joined with ", "
\* and a missing timestamp is shown as the empty text.
C17_StaticFieldsInert ==
    /\ st_msg = "None"
    /\ title_text = article.title
    /\ link_text = article.url
    /\ article.date = <<>> => date_text = <<>>
    /\ article.date # <<>> => date_text # <<>>
    /\ article.authors = <<>> => authors_text = <<>>
    /\ Len(article.authors) = 1 => authors_text = article.authors[1]
    /\ article.authors = <<Ann, Bo>> =>
          authors_text = <<"A", "n", "n", ",", " ", "B", "o">>
    /\ \A i \in 1..(Len(article.authors) - 1) :
          LET k == Len(Flatten(SubSeq(article.authors, 1, i))) + 2 * (i - 1)
          IN authors_text[k + 1] = "," /\ authors_text[k + 2] = " "
    /\ Len(authors_text) =
          Len(Flatten(article.authors)) + 2 * Max(0, Len(article.authors) - 1)

\* an event reached the authors label of an article with two authors and no
\* timestamp
C17_Witness ==
    /\ st_comp = "ArticleAuthors" /\ st_ev = "Enter"
    /\ Len(article.authors) = 2 /\ article.date = <<>>

\* C18: get_config_file returns Ok(path) only if the file exists on return;
\* when the file is absent and the write fails it returns Err with the
\* failure's description; whenever the file is absent it tries the write,
\* also after an earlier failure.
C18_OkOnlyIfFileExists ==
    [][CalledFile =>
          /\ ret'.tag = "Ok" =>
                (arg'[1].parts = <<"cfg", "tuifeed">> /\ cfg' = "file")
          /\ (arg'[1].parts # <<"cfg", "tuifeed">> \/ tui # "dir") =>
                /\ ret'.tag = "Err" /\ ret'.err # ""
                /\ writes' = 1
                /\ UNCHANGED <<tui, tuiData, cfg, cfgData>>
          /\ (arg'[1].parts = <<"cfg", "tuifeed">> /\ tui = "dir" /\ cfg = "absent") =>
                (writes' = 1 /\ ret'.tag = "Ok")]_vars

\* get_config_file created the file after an earlier call had failed
C18_Witness ==
    /\ failed /\ fn = "get_config_file" /\ ret.tag = "Ok"
    /\ writes = 1 /\ cfg = "file"

\* C19: every init_config_dir call with a root checks the path again; if
\* the directory went missing after a successful call, the next call
\* creates it again and returns the same path; whenever the call returns
\* Ok(Some(path)) the directory exists.
C19_DirectoryRecreated ==
    [][CalledDir =>
          /\ platform # <<>> => probes' = 1
          /\ (ret'.tag = "Ok" /\ ret'.val # <<>>) =>
                (ret'.val = <<TuiPath>> /\ tui' = "dir")
          /\ (dirRet.tag = "Ok" /\ dirRet.val # <<>> /\ tui = "absent") =>
                (tui' = "dir" /\ creates' = 1 /\ ret' = dirRet)]_vars

\* a second call created the directory anew and returned the first path
C19_Witness ==
    /\ fn = "init_config_dir" /\ prevRet.tag = "Ok" /\ prevRet.val # <<>>
    /\ ret = prevRet /\ creates = 1 /\ ~looked /\ tui = "dir"

\* C20: the scroll position stays within 0..max(0, n - 1) over n rows; Down
\* and Page Down at the last row leave it there.
C20_PositionBounded ==
    /\ list_index >= 0
    /\ list_index <= Max(0, list_len - 1)
    /\ (mounted /\ ev \in {"Down", "PageDown"} /\ upFrom = list_len - 1) =>
          list_index = list_len - 1

\* Down was delivered at the last of several rows
C20_Witness ==
    /\ mounted /\ ev = "Down" /\ list_len >= 3
    /\ upFrom = list_len - 1 /\ list_index = list_len - 1

====
